---- MODULE Spec2Model ----
(***************************************************************************)
(* Surface descriptors of sage-flatsurf: InfiniteStaircase, EInfinity,     *)
(* TFractal (similarity_surface_generators.py) and ChamanaraSurface        *)
(* (chamanara.py).  A caller constructs one descriptor and then queries    *)
(* polygon(label) and opposite_edge(label, edge) on it; EInfinity keeps    *)
(* the memo tables of get_white / get_black (cached_method), whose         *)
(* evaluation is also followed call by call.  The finite generators        *)
(* (example, billard, right_angle_triangle, regular_octagon,               *)
(* octagon_and_squares) hand polygons and a gluing dictionary to the       *)
(* surface constructor.                                                    *)
(***************************************************************************)
EXTENDS Integers, Sequences, FiniteSets, TLC

VARIABLES
    kind,    \* class of the constructed descriptor, "none" before construction
    self,    \* attributes of the descriptor (_l | _w,_r,_h1,_h2 | _p,_field)
    cache,   \* per EInfinity instance: memo tables of get_white and get_black,
             \* per TFractal: memo table of _base_polygon
    op,      \* name of the last call
    arg,     \* its argument
    ret,     \* its return value (NoValue when it raised)
    err,     \* the exception it raised, "none" when it returned
    trail,   \* the (label, edge) pairs crossed since the last fresh query
    nq,      \* number of queries made so far (cache and evaluation
             \* specifications only)
    stack    \* per thread: the frames of get_white / get_black in progress,
             \* innermost last (evaluation specifications only)

vars == <<kind, self, cache, op, arg, ret, err, trail, nq, stack>>

\* ------------------------------------------------------------------ bounds
MaxLabel == 4
MaxIndex == 3
MaxLen == 2
MaxCross == 2
MaxQueries == 2
MaxCoord == 2

\* ------------------------------------------------- exact field (rationals)
\* Elements of the fraction field are pairs <<numerator, denominator>> in
\* lowest terms with a positive denominator.
RECURSIVE Gcd(_, _)
Gcd(a, b) == IF b = 0 THEN a ELSE Gcd(b, a % b)

Abs(a) == IF a < 0 THEN -a ELSE a

Q(n, d) ==
    LET g == Gcd(Abs(n), Abs(d))
        s == IF d < 0 THEN -1 ELSE 1
    IN  <<(s * n) \div g, (s * d) \div g>>

QInt(n) == <<n, 1>>
QAdd(a, b) == Q(a[1] * b[2] + b[1] * a[2], a[2] * b[2])
QNeg(a) == <<-a[1], a[2]>>
QSub(a, b) == QAdd(a, QNeg(b))
QMul(a, b) == Q(a[1] * b[1], a[2] * b[2])
QDiv(a, b) == Q(a[1] * b[2], a[2] * b[1])
QLe(a, b) == a[1] * b[2] <= b[1] * a[2]
QIsInteger(a) == a[2] = 1

RECURSIVE QPow(_, _)
QPow(a, k) == IF k = 0 THEN QInt(1) ELSE QMul(a, QPow(a, k - 1))

NoValue == <<>>

Returned(v) == [err |-> "none", val |-> v]
Raised(e) == [err |-> e, val |-> NoValue]

\* --------------------------------------------------------------- polygons
\* A polygon is the sequence of its edge vectors over the exact field.
Vec(x, y) == <<x, y>>

polygons(vs) == vs

rectangle(width, height) ==
    polygons(<<Vec(width, QInt(0)), Vec(QInt(0), height),
               Vec(QNeg(width), QInt(0)), Vec(QInt(0), QNeg(height))>>)

square == rectangle(QInt(1), QInt(1))

ScalePolygon(c, P) == [k \in DOMAIN P |-> Vec(QMul(c, P[k][1]), QMul(c, P[k][2]))]

\* ------------------------------------------------------ InfiniteStaircase
IS_polygon(lab) ==
    IF ~QIsInteger(lab) THEN Raised("ValueError") ELSE Returned(square)

IS_opposite_edge_label_parity(p, e) ==
    IF p % 2 # 0
    THEN Returned(<<p + 1, (e + 2) % 4>>)
    ELSE Returned(<<p - 1, (e + 2) % 4>>)
IS_opposite_edge(p, e) ==
    IF (p + e) % 2 # 0
    THEN Returned(<<p + 1, (e + 2) % 4>>)
    ELSE Returned(<<p - 1, (e + 2) % 4>>)

\* -------------------------------------------------------------- EInfinity
Lambdas == {2, 3}

EmptyMemo == [w |-> <<>>, b |-> <<>>]

E_init(lambda_squared) == [_l |-> lambda_squared]

white_2(l) == 1 - 3 * l + l * l

white_step_sum(l, x, y) == l * y + x
white_step(l, x, y) == l * y - x

black_step_sum(x, y) == y + x
black_step(x, y) == y - x

white_reflect_shifted(n) == 1 - n
white_reflect_identity(n) == n
white_reflect(n) == -n

black_reflect_plain(n) == -n
black_reflect(n) == 1 - n

\* cached_method: a hit returns the stored value; a miss runs the body and
\* stores its result under the argument.  Each call returns the value and the
\* memo tables as the call leaves them.
memo_store_abs(m, n, v) == (Abs(n) :> v) @@ m
memo_store(m, n, v) == (n :> v) @@ m

RECURSIVE get_white(_, _, _), get_black(_, _, _)
get_white(l, c, n) ==
    IF n \in DOMAIN c.w THEN [v |-> c.w[n], c |-> c]
    ELSE LET r == IF n = 0 \/ n = 1 THEN [v |-> l, c |-> c]
                  ELSE IF n = -1 THEN [v |-> l - 1, c |-> c]
                  ELSE IF n = 2 THEN [v |-> white_2(l), c |-> c]
                  ELSE IF n > 2
                       THEN LET x == get_white(l, c, n - 1)
                                y == get_black(l, x.c, n)
                            IN  [v |-> white_step(l, x.v, y.v), c |-> y.c]
                       ELSE get_white(l, c, white_reflect(n))
         IN  [v |-> r.v, c |-> [r.c EXCEPT !.w = memo_store(@, n, r.v)]]

get_black(l, c, n) ==
    IF n \in DOMAIN c.b THEN [v |-> c.b[n], c |-> c]
    ELSE LET r == IF n = 0 THEN [v |-> 1, c |-> c]
                  ELSE IF n = 1 \/ n = -1 \/ n = 2 THEN [v |-> l - 1, c |-> c]
                  ELSE IF n > 2
                       THEN LET x == get_black(l, c, n - 1)
                                y == get_white(l, x.c, n - 1)
                            IN  [v |-> black_step(x.v, y.v), c |-> y.c]
                       ELSE get_black(l, c, black_reflect(n))
         IN  [v |-> r.v, c |-> [r.c EXCEPT !.b = memo_store(@, n, r.v)]]

\* polygon(lab): the result and the memo tables after the call.
E_polygon(l, c, lab) ==
    IF ~QIsInteger(lab) THEN [res |-> Raised("ValueError"), c |-> c]
    ELSE LET B == get_black(l, c, lab[1])
             W == get_white(l, B.c, lab[1])
         IN  [res |-> Returned(rectangle(QInt(2 * B.v), QInt(W.v))), c |-> W.c]

\* The rule after the four hard-coded labels (both branches of "if p>2").
E_general_fixed_label(p, e) ==
    IF e % 2 # 0 THEN Returned(<<p, (e + 2) % 4>>)
    ELSE Returned(<<1 - p, (e + 2) % 4>>)
E_general_reflect_all(p, e) == Returned(<<-p, (e + 2) % 4>>)
E_general(p, e) ==
    IF p > 2
    THEN (IF e % 2 # 0 THEN Returned(<<-p, (e + 2) % 4>>)
                       ELSE Returned(<<1 - p, (e + 2) % 4>>))
    ELSE (IF e % 2 # 0 THEN Returned(<<-p, (e + 2) % 4>>)
                       ELSE Returned(<<1 - p, (e + 2) % 4>>))

E_opposite_edge(p, e) ==
    IF p = 0 /\ e = 0 THEN Returned(<<0, 2>>)
    ELSE IF p = 0 /\ e = 1 THEN Returned(<<1, 3>>)
    ELSE IF p = 0 /\ e = 2 THEN Returned(<<0, 0>>)
    ELSE IF p = 0 /\ e = 3 THEN Returned(<<1, 1>>)
    ELSE IF p = 1 /\ e = 0 THEN Returned(<<-1, 2>>)
    ELSE IF p = 1 /\ e = 1 THEN Returned(<<0, 3>>)
    ELSE IF p = 1 /\ e = 2 THEN Returned(<<2, 0>>)
    ELSE IF p = 1 /\ e = 3 THEN Returned(<<0, 1>>)
    ELSE IF p = -1 /\ e = 0 THEN Returned(<<2, 2>>)
    ELSE IF p = -1 /\ e = 1 THEN Returned(<<-1, 3>>)
    ELSE IF p = -1 /\ e = 2 THEN Returned(<<1, 0>>)
    ELSE IF p = -1 /\ e = 3 THEN Returned(<<-1, 1>>)
    ELSE IF p = 2 /\ e = 0 THEN Returned(<<1, 2>>)
    ELSE IF p = 2 /\ e = 1 THEN Returned(<<-2, 3>>)
    ELSE IF p = 2 /\ e = 2 THEN Returned(<<-1, 0>>)
    ELSE IF p = 2 /\ e = 3 THEN Returned(<<-2, 1>>)
    ELSE E_general(p, e)

\* --------------------------------------------------------------- TFractal
WordsUpTo(n) == UNION {[1..k -> {"L", "R"}] : k \in 0..n}

TParams == {<<1, 2, 1, 1>>, <<2, 3, 3, 2>>}

\* The universe of the parameters is made a field (fraction_field).
T_init(w, r, h1, h2) ==
    [_w |-> QInt(w), _r |-> QInt(r), _h1 |-> QInt(h1), _h2 |-> QInt(h2)]

is_empty(w) == Len(w) = 0
last(w) == w[Len(w)]
drop_last_first(w) == SubSeq(w, 2, Len(w))
drop_last(w) == SubSeq(w, 1, Len(w) - 1)

T_flip(e) ==
    IF e = 0 THEN 2 ELSE IF e = 1 THEN 3 ELSE IF e = 2 THEN 0 ELSE 1

T_ascend_swapped(w) ==
    IF last(w) = "L" THEN <<drop_last(w), 3>> ELSE <<drop_last(w), 1>>
T_ascend(w) ==
    IF last(w) = "L" THEN <<drop_last(w), 1>> ELSE <<drop_last(w), 3>>

T_lab(w, i, e) ==
    IF i = 0 THEN
        IF e = 0 THEN (IF is_empty(w) THEN <<w, 2>> ELSE T_ascend(w))
        ELSE IF e = 1 THEN <<w, 0>>
        ELSE IF e = 2 THEN <<w, 2>>
        ELSE <<w, 0>>
    ELSE IF i = 1 THEN
        IF e = 0 THEN <<w \o <<"L">>, 2>>
        ELSE IF e = 1 THEN <<w, 2>>
        ELSE IF e = 2 THEN <<w \o <<"L">>, 0>>
        ELSE <<w, 3>>
    ELSE IF i = 2 THEN
        IF e = 0 THEN <<w, 0>>
        ELSE IF e = 1 THEN <<w, 3>>
        ELSE IF e = 2 THEN (IF is_empty(w) THEN <<w, 0>> ELSE T_ascend(w))
        ELSE <<w, 1>>
    ELSE
        IF e = 0 THEN <<w \o <<"R">>, 2>>
        ELSE IF e = 1 THEN <<w, 1>>
        ELSE IF e = 2 THEN <<w \o <<"R">>, 0>>
        ELSE <<w, 2>>

T_opposite_edge(p, e) ==
    LET w == p[1]
        i == p[2]
    IN  IF e \notin {0, 1, 2, 3} THEN Raised("ValueError")
        ELSE IF i \notin {0, 1, 2, 3} THEN Raised("ValueError")
        ELSE Returned(<<T_lab(w, i, e), T_flip(e)>>)

T_base_width_unscaled(s, i) == s._w
T_base_width(s, i) == IF i = 1 \/ i = 3 THEN QDiv(s._w, s._r) ELSE s._w

T_base_height_paired(s, i) == IF i = 0 \/ i = 2 THEN s._h1 ELSE s._h2
T_base_height(s, i) == IF i = 0 THEN s._h1 ELSE s._h2

\* _base_polygon leaves w and h unbound for a tag outside {0,1,2,3}.
T_base_polygon(s, i) ==
    IF i \notin {0, 1, 2, 3} THEN Raised("UnboundLocalError")
    ELSE Returned(rectangle(T_base_width(s, i), T_base_height(s, i)))

T_scale_linear(s, w) == QDiv(QInt(1), QMul(s._r, QInt(Len(w))))
T_scale(s, w) == QDiv(QInt(1), QPow(s._r, Len(w)))

\* polygon(lab): the result and the memo table of _base_polygon after it.
T_polygon(s, c, lab) ==
    LET i == lab[2]
        hit == i \in DOMAIN c
        base == IF hit THEN Returned(c[i]) ELSE T_base_polygon(s, i)
    IN  IF base.err # "none" THEN [res |-> base, c |-> c]
        ELSE [res |-> Returned(ScalePolygon(T_scale(s, lab[1]), base.val)),
              c |-> IF hit THEN c ELSE (i :> base.val) @@ c]

\* ------------------------------------------------------- ChamanaraSurface
QQ(n, d) == [parent |-> "QQ", v |-> Q(n, d)]
ZZ(n) == [parent |-> "ZZ", v |-> QInt(n)]

AlphaInputs ==
    {QQ(-1, 1), QQ(0, 1), QQ(1, 3), QQ(1, 2), QQ(1, 1), QQ(3, 2), ZZ(0), ZZ(2)}

is_field(parent) == parent = "QQ"

Cham_vectors_halved(x) ==
    <<Vec(QInt(1), QInt(0)), Vec(QNeg(QSub(x, QInt(1))), QSub(x, QInt(1))),
      Vec(QInt(0), QInt(-1)), Vec(QSub(x, QInt(2)), QSub(QInt(2), x))>>
Cham_vectors(x) ==
    <<Vec(QInt(1), QInt(0)), Vec(QNeg(x), x),
      Vec(QInt(0), QInt(-1)), Vec(QSub(x, QInt(1)), QSub(QInt(1), x))>>

\* Both parameter checks build a ValueError and drop it: neither is raised.
\* The only exception is the division by zero at alpha = 1.
ChamanaraPolygon(alpha) ==
    LET not_a_field == ~is_field(alpha.parent)
        out_of_range == QLe(alpha.v, QInt(0)) \/ QLe(QInt(1), alpha.v)
    IN  IF QSub(QInt(1), alpha.v) = QInt(0) THEN Raised("ZeroDivisionError")
        ELSE Returned(polygons(Cham_vectors(
                 QDiv(QInt(1), QSub(QInt(1), alpha.v)))))

C_init(alpha) ==
    LET P == ChamanaraPolygon(alpha)
    IN  IF P.err # "none" THEN P
        ELSE Returned([_p |-> P.val, _field |-> alpha.parent])

C_polygon(s, lab) == Returned(s._p)

C_opposite_edge_strict(p, e) ==
    IF e = 0 \/ e = 2 THEN Returned(<<1 - p, e>>)
    ELSE IF e = 1
         THEN (IF p < 0 THEN Returned(<<p + 1, 3>>)
               ELSE IF p > 1 THEN Returned(<<p - 1, 3>>)
               ELSE Returned(<<1 - p, 1>>))
         ELSE (IF p < 0 THEN Returned(<<p - 1, 1>>)
               ELSE Returned(<<p + 1, 1>>))
C_opposite_edge(p, e) ==
    IF e = 0 \/ e = 2 THEN Returned(<<1 - p, e>>)
    ELSE IF e = 1
         THEN (IF p < 0 THEN Returned(<<p + 1, 3>>)
               ELSE IF p > 1 THEN Returned(<<p - 1, 3>>)
               ELSE Returned(<<1 - p, 1>>))
         ELSE (IF p <= 0 THEN Returned(<<p - 1, 1>>)
               ELSE Returned(<<p + 1, 1>>))

\* ------------------------------------------------------ finite generators
\* polygons(vertices=...): the edge vectors between consecutive vertices.
from_vertices(vs) ==
    [k \in 1..Len(vs) |->
        LET a == vs[k]
            b == vs[(k % Len(vs)) + 1]
        IN  Vec(QInt(b[1] - a[1]), QInt(b[2] - a[2]))]

num_edges(P) == Len(P)

\* A gluing dictionary is a function from (polygon, edge) keys to (polygon,
\* edge) values; what a generator hands to the surface constructor is the
\* tuple of polygons and the dictionary.
surface(ps, glue) == [polygons |-> ps, glue |-> glue]

example_glue ==
    (<<0, 2>> :> <<1, 0>>) @@ (<<0, 0>> :> <<1, 1>>) @@ (<<0, 1>> :> <<1, 2>>)
    @@ (<<1, 0>> :> <<0, 2>>) @@ (<<1, 1>> :> <<0, 0>>) @@ (<<1, 2>> :> <<0, 1>>)

example ==
    LET p0 == from_vertices(<< <<0, 0>>, <<2, -2>>, <<2, 0>> >>)
        p1 == from_vertices(<< <<0, 0>>, <<2, 0>>, <<1, 3>> >>)
    IN  surface(<<p0, p1>>, example_glue)

\* r = matrix(2, [-1,0,0,1]) applied to a vector.
reflect(v) == Vec(QNeg(v[1]), v[2])

\* Q = polygons(*[r*v for v in reversed(P.edges())])
billard_Q(P) == [k \in 1..Len(P) |-> reflect(P[Len(P) + 1 - k])]

billard_glue_off_by_one(n) ==
    [k \in {0, 1} \X (0..(n - 1)) |-> <<1 - k[1], n - k[2]>>]
billard_glue(n) ==
    [k \in {0, 1} \X (0..(n - 1)) |-> <<1 - k[1], n - k[2] - 1>>]

\* Q (here Qp) is built and then left aside: the surface is made of (P, P).
billard(P) ==
    LET n == num_edges(P)
        Qp == billard_Q(P)
    IN  surface(<<P, P>>, billard_glue(n))

right_angle_triangle_glue ==
    (<<0, 0>> :> <<1, 2>>) @@ (<<0, 1>> :> <<1, 1>>) @@ (<<0, 2>> :> <<1, 0>>)

right_angle_triangle(w, h) ==
    LET p1 == <<Vec(QInt(w), QInt(0)), Vec(QInt(-w), QInt(h)),
                Vec(QInt(0), QInt(-h))>>
        p2 == <<Vec(QInt(0), QInt(h)), Vec(QInt(-w), QInt(-h)),
                Vec(QInt(w), QInt(0))>>
    IN  surface(<<p1, p2>>, right_angle_triangle_glue)

\* polygons.regular_ngon(n): its n edges, in order, as opaque vectors of the
\* number field.
regular_ngon(n) == [k \in 1..n |-> <<"regular_ngon", n, k - 1>>]

\* rot * s: the square turned by a quarter of the octagon's angle, edge by
\* edge.
rotated(P) == [k \in DOMAIN P |-> <<"rot", P[k]>>]

regular_octagon ==
    surface(<<regular_ngon(8)>>, [k \in {0} \X (0..3) |-> <<0, k[2] + 4>>])

octagon_and_squares_glue ==
    (<<0, 0>> :> <<1, 3>>) @@ (<<0, 1>> :> <<2, 3>>) @@ (<<0, 2>> :> <<1, 0>>)
    @@ (<<0, 3>> :> <<2, 0>>) @@ (<<0, 4>> :> <<1, 1>>) @@ (<<0, 5>> :> <<2, 1>>)
    @@ (<<0, 6>> :> <<1, 2>>) @@ (<<0, 7>> :> <<2, 2>>)

octagon_and_squares ==
    LET o == regular_ngon(8)
        s == ScalePolygon(QInt(2), square)
    IN  surface(<<o, s, rotated(s)>>, octagon_and_squares_glue)

\* Polygons handed to billard: the convex polygons with three or four sides,
\* counterclockwise, whose edge vectors have integer coordinates of absolute
\* value at most MaxCoord.  (With at most four sides, left turns at every
\* vertex and a closed boundary make the polygon convex.)
SideCounts == {3, 4}
Coords == -MaxCoord..MaxCoord
det(u, v) == u[1] * v[2] - u[2] * v[1]

RECURSIVE SumTo(_, _)
SumTo(es, k) ==
    IF k = 0 THEN <<0, 0>>
    ELSE LET t == SumTo(es, k - 1) IN <<t[1] + es[k][1], t[2] + es[k][2]>>

Closed(es) ==
    LET t == SumTo(es, Len(es)) IN Append(es, <<-t[1], -t[2]>>)

LeftTurns(es) ==
    \A k \in 1..Len(es) : det(es[k], es[(k % Len(es)) + 1]) > 0

BillardInputs ==
    UNION {{[k \in 1..n |-> Vec(QInt(Closed(es)[k][1]), QInt(Closed(es)[k][2]))] :
              es \in {x \in [1..(n - 1) -> Coords \X Coords] :
                         /\ Closed(x)[n] \in Coords \X Coords
                         /\ LeftTurns(Closed(x))}} :
           n \in SideCounts}

\* ------------------------------------------------------ dynamic dispatch
Kinds == {"InfiniteStaircase", "EInfinity", "TFractal", "ChamanaraSurface"}

IntLabels == -MaxLabel..MaxLabel
Indices == -MaxIndex..MaxIndex
IndexLabels == {QInt(n) : n \in Indices} \cup {Q(1, 2)}
Edges == 0..3
EdgeInputs == -1..4
Tags == 0..3
TagInputs == 0..4

\* Labels handed to opposite_edge: members of the label space, and for
\* TFractal also pairs whose tag is outside {0,1,2,3}.
LabelInputs(k) ==
    IF k = "TFractal" THEN WordsUpTo(MaxLen) \X TagInputs ELSE IntLabels

\* Labels handed to polygon: integers are given as field elements, so that a
\* non-integer (1/2) can be handed in as well; TFractal words go one level
\* deeper than the walk starts, as far as one descent reaches; EInfinity
\* labels are the indices its memo tables are asked for.
PolygonInputs(k) ==
    IF k = "TFractal" THEN WordsUpTo(MaxLen + 1) \X TagInputs
    ELSE IF k = "EInfinity" THEN IndexLabels
    ELSE {QInt(n) : n \in IntLabels} \cup {Q(1, 2)}

opposite_edge(k, p, e) ==
    CASE k = "InfiniteStaircase" -> IS_opposite_edge(p, e)
      [] k = "EInfinity" -> E_opposite_edge(p, e)
      [] k = "TFractal" -> T_opposite_edge(p, e)
      [] k = "ChamanaraSurface" -> C_opposite_edge(p, e)

\* polygon on the descriptor: the result and the memo tables after the call.
polygon(k, s, c, lab) ==
    CASE k = "InfiniteStaircase" -> [res |-> IS_polygon(lab), c |-> c]
      [] k = "EInfinity" ->
            LET r == E_polygon(s._l, c[1], lab)
            IN  [res |-> r.res, c |-> [c EXCEPT ![1] = r.c]]
      [] k = "TFractal" -> T_polygon(s, c, lab)
      [] k = "ChamanaraSurface" -> [res |-> C_polygon(s, lab), c |-> c]

\* ---------------------------------------------------------------- actions
\* The threads that may call into one descriptor; none has a call in progress.
Threads == {1, 2}
NoStacks == [t \in Threads |-> <<>>]

Init ==
    /\ kind = "none"
    /\ self = NoValue
    /\ cache = NoValue
    /\ op = "none"
    /\ arg = NoValue
    /\ ret = NoValue
    /\ err = "none"
    /\ trail = <<>>
    /\ nq = 0
    /\ stack = NoStacks

Constructed(k, s, c, a) ==
    /\ kind' = k
    /\ self' = s
    /\ cache' = c
    /\ op' = "__init__"
    /\ arg' = a
    /\ ret' = NoValue
    /\ err' = "none"
    /\ trail' = <<>>
    /\ UNCHANGED <<nq, stack>>

NewInfiniteStaircase ==
    /\ kind = "none"
    /\ Constructed("InfiniteStaircase", NoValue, NoValue, NoValue)

NewEInfinity ==
    /\ kind = "none"
    /\ \E l \in Lambdas :
          Constructed("EInfinity", E_init(l), [k \in {1} |-> EmptyMemo], l)

NewTFractal ==
    /\ kind = "none"
    /\ \E t \in TParams :
          Constructed("TFractal", T_init(t[1], t[2], t[3], t[4]), <<>>, t)

NewChamanaraSurface ==
    /\ kind = "none"
    /\ \E alpha \in AlphaInputs :
          LET r == C_init(alpha)
          IN  IF r.err = "none"
              THEN Constructed("ChamanaraSurface", r.val, NoValue, alpha)
              ELSE /\ op' = "__init__"
                   /\ arg' = alpha
                   /\ ret' = NoValue
                   /\ err' = r.err
                   /\ UNCHANGED <<kind, self, cache, trail, nq, stack>>

Polygon ==
    /\ kind \in Kinds
    /\ \E lab \in PolygonInputs(kind) :
          LET r == polygon(kind, self, cache, lab)
          IN  /\ op' = "polygon"
              /\ arg' = lab
              /\ ret' = r.res.val
              /\ err' = r.res.err
              /\ cache' = r.c
              /\ trail' = <<>>
              /\ UNCHANGED <<kind, self, nq, stack>>

Called(a, r) ==
    /\ op' = "opposite_edge"
    /\ arg' = a
    /\ ret' = r.val
    /\ err' = r.err
    /\ UNCHANGED <<kind, self, cache, nq, stack>>

\* A fresh opposite_edge query.
OppositeEdge ==
    /\ kind \in Kinds
    /\ \E p \in LabelInputs(kind), e \in EdgeInputs :
          /\ Called(<<p, e>>, opposite_edge(kind, p, e))
          /\ trail' = <<>>

\* The caller walks through the edge: the pair just returned is the next query.
Cross ==
    /\ kind \in Kinds
    /\ op = "opposite_edge"
    /\ err = "none"
    /\ Len(trail) < MaxCross
    /\ Called(ret, opposite_edge(kind, ret[1], ret[2]))
    /\ trail' = Append(trail, arg)

New ==
    \/ NewInfiniteStaircase
    \/ NewEInfinity
    \/ NewTFractal
    \/ NewChamanaraSurface

\* Walking the gluing.  opposite_edge reads no attribute and no memo table,
\* so the polygon queries are left to SpecPolygon.
Next ==
    \/ New
    \/ OppositeEdge
    \/ Cross

Spec == Init /\ [][Next]_vars

\* Polygon queries on the constructed descriptor.
NextPolygon ==
    \/ New
    \/ Polygon

SpecPolygon == Init /\ [][NextPolygon]_vars

\* --------------------------------------------- two EInfinity instances
\* Two descriptors built with the same lambda, queried independently.
Instances == {1, 2}

InitCache ==
    /\ kind = "EInfinity"
    /\ \E l \in Lambdas : self = E_init(l)
    /\ cache = [k \in Instances |-> EmptyMemo]
    /\ op = "__init__"
    /\ arg = NoValue
    /\ ret = NoValue
    /\ err = "none"
    /\ trail = <<>>
    /\ nq = 0
    /\ stack = NoStacks

\* A query on instance k that leaves its memo tables as c.  What a memoized
\* query returns is the entry it leaves in the table, so the tables are the
\* record of the values returned.
Queried(name, k, c) ==
    /\ nq < MaxQueries
    /\ nq' = nq + 1
    /\ op' = name
    /\ cache' = [cache EXCEPT ![k] = c]
    /\ UNCHANGED <<kind, self, arg, ret, err, trail, stack>>

GetWhite ==
    /\ kind = "EInfinity"
    /\ \E k \in Instances, n \in Indices :
          Queried("get_white", k, get_white(self._l, cache[k], n).c)

GetBlack ==
    /\ kind = "EInfinity"
    /\ \E k \in Instances, n \in Indices :
          Queried("get_black", k, get_black(self._l, cache[k], n).c)

PolygonOn ==
    /\ kind = "EInfinity"
    /\ \E k \in Instances, lab \in IndexLabels :
          Queried("polygon", k, E_polygon(self._l, cache[k], lab).c)

\* opposite_edge reads and writes no table.
OppositeEdgeOn ==
    /\ kind = "EInfinity"
    /\ \E k \in Instances, p \in Indices, e \in Edges :
          /\ E_opposite_edge(p, e).err = "none"
          /\ Queried("opposite_edge", k, cache[k])

NextCache ==
    \/ GetWhite
    \/ GetBlack
    \/ PolygonOn
    \/ OppositeEdgeOn

SpecCache == InitCache /\ [][NextCache]_vars

\* ------------------------------------ get_white / get_black, call by call
\* One EInfinity instance whose get_white and get_black are evaluated frame by
\* frame, by one thread (SpecEval) or by two threads that share the instance
\* and its memo tables (SpecThreads).  A frame is at "lookup" (the
\* cached_method wrapper is about to look its key up), at "x" or "y" (the
\* body waits for its first or second recursive call), at "tail" (the body
\* waits for the reflected call whose value it returns) or at "store" (the
\* body has returned v and the wrapper is about to store it).
Frame(f, n) == [f |-> f, n |-> n, pc |-> "lookup", x |-> 0, v |-> 0]

\* The frames a thread may hold: deeper recursion than the largest index can
\* ask for does not fit.
MaxDepth == 2 * MaxIndex + 3

Top(t) == stack[t][Len(stack[t])]
Rest(t) == SubSeq(stack[t], 1, Len(stack[t]) - 1)
memo(f) == IF f = "get_white" THEN cache[1].w ELSE cache[1].b

\* The body up to its first recursive call: the frame as the body leaves it
\* and the call it makes, if any.
body(l, fr) ==
    LET n == fr.n
        base(v) == [fr |-> [fr EXCEPT !.pc = "store", !.v = v], call |-> <<>>]
        first(g, m) == [fr |-> [fr EXCEPT !.pc = "x"], call |-> <<Frame(g, m)>>]
        tail(g, m) == [fr |-> [fr EXCEPT !.pc = "tail"], call |-> <<Frame(g, m)>>]
    IN  IF fr.f = "get_white"
        THEN IF n = 0 \/ n = 1 THEN base(l)
             ELSE IF n = -1 THEN base(l - 1)
             ELSE IF n = 2 THEN base(white_2(l))
             ELSE IF n > 2 THEN first("get_white", n - 1)
             ELSE tail("get_white", white_reflect(n))
        ELSE IF n = 0 THEN base(1)
             ELSE IF n = 1 \/ n = -1 \/ n = 2 THEN base(l - 1)
             ELSE IF n > 2 THEN first("get_black", n - 1)
             ELSE tail("get_black", black_reflect(n))

\* A call returns v to the frames below it: the caller takes the value and
\* goes on to its second call, to its own return, or (no caller) the query
\* is answered.
resume(l, s, v) ==
    IF s = <<>> THEN s
    ELSE LET c == s[Len(s)]
             below == SubSeq(s, 1, Len(s) - 1)
         IN  IF c.pc = "x"
             THEN below \o <<[c EXCEPT !.pc = "y", !.x = v],
                             IF c.f = "get_white" THEN Frame("get_black", c.n)
                             ELSE Frame("get_white", c.n - 1)>>
             ELSE IF c.pc = "y"
             THEN below \o <<[c EXCEPT !.pc = "store",
                                       !.v = IF c.f = "get_white"
                                             THEN white_step(l, c.x, v)
                                             ELSE black_step(c.x, v)]>>
             ELSE below \o <<[c EXCEPT !.pc = "store", !.v = v]>>

InitEval ==
    /\ kind = "EInfinity"
    /\ \E l \in Lambdas : self = E_init(l)
    /\ cache = [k \in {1} |-> EmptyMemo]
    /\ op = "__init__"
    /\ arg = NoValue
    /\ ret = NoValue
    /\ err = "none"
    /\ trail = <<>>
    /\ nq = 0
    /\ stack = NoStacks

\* Thread t calls get_white(n) or get_black(n) on the instance.  Here arg is
\* the argument tuple (n,) and ret the tuple of the value returned, empty
\* while the call is in progress.
Query(t) ==
    /\ stack[t] = <<>>
    /\ nq < MaxQueries
    /\ \E f \in {"get_white", "get_black"}, n \in Indices :
          /\ stack' = [stack EXCEPT ![t] = <<Frame(f, n)>>]
          /\ op' = f
          /\ arg' = <<n>>
    /\ nq' = nq + 1
    /\ ret' = NoValue
    /\ UNCHANGED <<kind, self, cache, err, trail>>

\* The innermost call of thread t returns v.
Returns(t, v) ==
    /\ stack' = [stack EXCEPT ![t] = resume(self._l, Rest(t), v)]
    /\ IF Rest(t) = <<>>
       THEN ret' = <<v>> /\ op' = Top(t).f /\ arg' = <<Top(t).n>>
       ELSE UNCHANGED <<op, arg, ret>>
    /\ UNCHANGED <<kind, self, err, trail, nq>>

\* cached_method finds the key: the stored value is returned.
Hit(t) ==
    /\ stack[t] # <<>>
    /\ Top(t).pc = "lookup"
    /\ Top(t).n \in DOMAIN memo(Top(t).f)
    /\ Returns(t, memo(Top(t).f)[Top(t).n])
    /\ UNCHANGED cache

\* cached_method does not find the key: the body runs up to its first
\* recursive call.
Miss(t) ==
    /\ stack[t] # <<>>
    /\ Top(t).pc = "lookup"
    /\ Top(t).n \notin DOMAIN memo(Top(t).f)
    /\ LET b == body(self._l, Top(t))
       IN  /\ Len(Rest(t)) + 1 + Len(b.call) <= MaxDepth
           /\ stack' = [stack EXCEPT ![t] = Rest(t) \o <<b.fr>> \o b.call]
    /\ UNCHANGED <<kind, self, cache, op, arg, ret, err, trail, nq>>

\* The body has returned: cached_method stores the value under the key and
\* returns it.
Store(t) ==
    /\ stack[t] # <<>>
    /\ Top(t).pc = "store"
    /\ cache' = [cache EXCEPT ![1] =
                    IF Top(t).f = "get_white"
                    THEN [@ EXCEPT !.w = memo_store(@, Top(t).n, Top(t).v)]
                    ELSE [@ EXCEPT !.b = memo_store(@, Top(t).n, Top(t).v)]]
    /\ Returns(t, Top(t).v)

Step(t) == Hit(t) \/ Miss(t) \/ Store(t)

\* One thread.
NextEval ==
    \/ Query(1)
    \/ Hit(1)
    \/ Miss(1)
    \/ Store(1)

\* A call in progress goes on.
SpecEval == InitEval /\ [][NextEval]_vars /\ WF_vars(Step(1))

\* Two threads on the same instance, interleaved frame step by frame step.
NextThreads ==
    \E t \in Threads :
        \/ Query(t)
        \/ Hit(t)
        \/ Miss(t)
        \/ Store(t)

SpecThreads == InitEval /\ [][NextThreads]_vars

\* ------------------------------------------------- the finite generators
Generators ==
    {"example", "billard", "right_angle_triangle", "regular_octagon",
     "octagon_and_squares"}

\* A generator has handed its polygons and its dictionary to the surface
\* constructor.
Built(name, a, S) ==
    /\ kind' = "polygons_and_gluings"
    /\ self' = S
    /\ cache' = NoValue
    /\ op' = name
    /\ arg' = a
    /\ ret' = NoValue
    /\ err' = "none"
    /\ trail' = <<>>
    /\ UNCHANGED <<nq, stack>>

Example ==
    /\ kind = "none"
    /\ Built("example", NoValue, example)

Billard ==
    /\ kind = "none"
    /\ \E P \in BillardInputs : Built("billard", P, billard(P))

RightAngleTriangle ==
    /\ kind = "none"
    /\ \E w \in 1..MaxCoord, h \in 1..MaxCoord :
          Built("right_angle_triangle", <<w, h>>, right_angle_triangle(w, h))

RegularOctagon ==
    /\ kind = "none"
    /\ Built("regular_octagon", NoValue, regular_octagon)

OctagonAndSquares ==
    /\ kind = "none"
    /\ Built("octagon_and_squares", NoValue, octagon_and_squares)

NextFinite ==
    \/ Example
    \/ Billard
    \/ RightAngleTriangle
    \/ RegularOctagon
    \/ OctagonAndSquares

SpecFinite == Init /\ [][NextFinite]_vars

\* ============================================================ properties
\* The query that started the current crossing, and whether it was a valid
\* (label, edge) pair of the descriptor.
Crossed == op = "opposite_edge" /\ Len(trail) >= 1
Before == trail[Len(trail)]
ValidIntEdge(a) == a[2] \in Edges
ValidTEdge(a) == a[1][2] \in Tags /\ a[2] \in Edges

\* C1: EInfinity.opposite_edge is a fixed-point-free involution on Z x
\* {0,1,2,3}: the image of a valid pair is another pair, and crossing back
\* from the image returns the pair one started from.
C1_EInfinityInvolution ==
    kind = "EInfinity" /\ op = "opposite_edge" =>
        /\ ValidIntEdge(arg) => err = "none" /\ ret # arg
        /\ Crossed /\ ValidIntEdge(Before) => err = "none" /\ ret = Before

\* C1 witness: the hard-coded pair (2,1) was crossed to the general-rule label
\* -2 and crossing back has returned (2,1).
C1_Witness ==
    /\ kind = "EInfinity" /\ op = "opposite_edge"
    /\ trail = <<(<<2, 1>>)>>
    /\ arg = <<-2, 3>>
    /\ ret = <<2, 1>>

\* C2: TFractal.opposite_edge is a fixed-point-free involution on
\* (words x {0,1,2,3}) x {0,1,2,3}; the empty-word pairs ((eps,0),0) and
\* ((eps,2),2) are each other's image.
C2_TFractalInvolution ==
    kind = "TFractal" /\ op = "opposite_edge" =>
        /\ ValidTEdge(arg) => err = "none" /\ ret # arg
        /\ Crossed /\ ValidTEdge(Before) => err = "none" /\ ret = Before
        /\ arg = <<(<< <<>>, 0>>), 0>> => ret = <<(<< <<>>, 2>>), 2>>
        /\ arg = <<(<< <<>>, 2>>), 2>> => ret = <<(<< <<>>, 0>>), 0>>

\* C2 witness: the descent from (L,1) through edge 0 into (LL,2) was undone by
\* the ascent through edge 2.
C2_Witness ==
    /\ kind = "TFractal" /\ op = "opposite_edge"
    /\ trail = <<(<<(<< <<"L">>, 1>>), 0>>)>>
    /\ arg = <<(<< <<"L", "L">>, 2>>), 2>>
    /\ ret = <<(<< <<"L">>, 1>>), 0>>

\* C3: ChamanaraSurface.opposite_edge is a fixed-point-free involution on Z x
\* {0,1,2,3}, with opposite_edge(0,1) = (1,1) and opposite_edge(1,1) = (0,1).
C3_ChamanaraInvolution ==
    kind = "ChamanaraSurface" /\ op = "opposite_edge" =>
        /\ ValidIntEdge(arg) => err = "none" /\ ret # arg
        /\ Crossed /\ ValidIntEdge(Before) => err = "none" /\ ret = Before
        /\ arg = <<0, 1>> => ret = <<1, 1>>
        /\ arg = <<1, 1>> => ret = <<0, 1>>

\* C3 witness: edge 3 of label 0 was crossed to (-1,1) and crossing back across
\* the sign boundary has returned (0,3).
C3_Witness ==
    /\ kind = "ChamanaraSurface" /\ op = "opposite_edge"
    /\ trail = <<(<<0, 3>>)>>
    /\ arg = <<-1, 1>>
    /\ ret = <<0, 3>>

\* The sequences W and B as C4 states them, without any memo table.
RECURSIVE SeqW(_, _), SeqB(_, _)
SeqW(l, n) ==
    IF n = 0 \/ n = 1 THEN l
    ELSE IF n = -1 THEN l - 1
    ELSE IF n = 2 THEN 1 - 3 * l + l * l
    ELSE IF n > 2 THEN l * SeqB(l, n) - SeqW(l, n - 1)
    ELSE SeqW(l, -n)

SeqB(l, n) ==
    IF n = 0 THEN 1
    ELSE IF n = 1 \/ n = -1 \/ n = 2 THEN l - 1
    ELSE IF n > 2 THEN SeqW(l, n - 1) - SeqB(l, n - 1)
    ELSE SeqB(l, 1 - n)

\* The two sequences tabulated once, over every index a query can reach.
Reach == -(MaxIndex + 1)..(MaxIndex + 1)
W == [l \in Lambdas |-> [n \in Reach |-> SeqW(l, n)]]
B == [l \in Lambdas |-> [n \in Reach |-> SeqB(l, n)]]

\* C4: on every instance and whatever its memo tables hold, get_white(n) and
\* get_black(n) return W(n) and B(n); so get_white(n) = get_white(-n) for
\* n < -1 and get_black(n) = get_black(1-n) for n <= -2.  W(3) and B(3) are
\* also compared with their closed forms l^3-5l^2+5l-1 and l^2-4l+2.
C4_WhiteBlackSequences ==
    LET l == self._l
        Asked == Indices \cup {MaxIndex + 1}
    IN  \A k \in Instances :
            LET white == [n \in Asked |-> get_white(l, cache[k], n).v]
                black == [n \in Asked |-> get_black(l, cache[k], n).v]
            IN  /\ \A n \in Indices :
                    /\ white[n] = W[l][n]
                    /\ black[n] = B[l][n]
                    /\ n < -1 => white[n] = white[-n]
                    /\ n <= -2 => black[n] = black[1 - n]
                /\ white[3] = l * l * l - 5 * l * l + 5 * l - 1
                /\ black[3] = l * l - 4 * l + 2
                /\ black[0] = 1

\* C4 witness: get_white(-3) was answered on a fresh instance through the
\* reflection and the general recurrence, which left W(-3), W(3), W(2), B(3)
\* and B(2) in its tables.
C4_Witness ==
    /\ op = "get_white"
    /\ \E k \in Instances :
          /\ DOMAIN cache[k].w = {-3, 3, 2}
          /\ DOMAIN cache[k].b = {3, 2}
          /\ cache[k].w[-3] = W[self._l][3]

\* C8: memoization is invisible.  Whatever queries the two instances have
\* answered, the next get_white, get_black or polygon query returns the same
\* value on both, and every stored entry is the value of the recurrence at its
\* index.  (opposite_edge reads no table.)
C8_MemoInvisible ==
    LET l == self._l
    IN  /\ [n \in Indices |-> get_white(l, cache[1], n).v]
               = [n \in Indices |-> get_white(l, cache[2], n).v]
        /\ [n \in Indices |-> get_black(l, cache[1], n).v]
               = [n \in Indices |-> get_black(l, cache[2], n).v]
        /\ \A lab \in IndexLabels :
               E_polygon(l, cache[1], lab).res = E_polygon(l, cache[2], lab).res
        /\ \A k \in Instances :
               /\ \A n \in DOMAIN cache[k].w : cache[k].w[n] = W[l][n]
               /\ \A n \in DOMAIN cache[k].b : cache[k].b[n] = B[l][n]

\* C8 witness: the two instances hold different, overlapping tables: one
\* answered get_white(3) and the other get_black(3), so the next get_white(3)
\* is a hit on instance 1 and a miss on instance 2 that reads the stored W(2)
\* and B(3).
C8_Witness ==
    /\ nq = 2
    /\ DOMAIN cache[1].w = {3, 2}
    /\ DOMAIN cache[2].w = {2}
    /\ 3 \in DOMAIN cache[2].b

\* C5: constructing a ChamanaraSurface with alpha <= 0, alpha >= 1 or alpha
\* outside a field fails with an exception and yields no surface object.
\* (Any exception is taken for the invalid-parameter error.)
InvalidAlpha(alpha) ==
    \/ ~is_field(alpha.parent)
    \/ QLe(alpha.v, QInt(0))
    \/ QLe(QInt(1), alpha.v)

C5_InvalidAlphaRejected ==
    op = "__init__" /\ kind \in {"none", "ChamanaraSurface"} =>
        (InvalidAlpha(arg) => err # "none" /\ kind = "none")

\* C6: on each of the four descriptors opposite_edge(label, e) with a valid
\* label and e outside 0..3 fails with an exception instead of returning a
\* (label, edge) pair.  (Any exception is taken for the invalid-edge error.)
ValidLabel(p) == kind = "TFractal" => p[2] \in Tags

C6_InvalidEdgeRejected ==
    kind \in Kinds /\ op = "opposite_edge" =>
        (ValidLabel(arg[1]) /\ arg[2] \notin Edges =>
             err # "none" /\ ret = NoValue)

\* C7: on each of the four descriptors polygon(label) with a label outside
\* the label space (a non-integer, or for TFractal a pair whose tag is outside
\* {0,1,2,3}) fails with an exception and returns no polygon.  (Any exception
\* is taken for the invalid-label error.)
InLabelSpace(lab) ==
    IF kind = "TFractal" THEN lab[2] \in Tags ELSE QIsInteger(lab)

C7_InvalidLabelRejected ==
    kind \in Kinds /\ op = "polygon" =>
        (~InLabelSpace(arg) => err # "none" /\ ret = NoValue)

\* C9: TFractal.polygon((v,i)) is the rectangle (W,0),(0,H),(-W,0),(0,-H) with
\* W * r^|v| = w for tags 0, 2 and W * r^(|v|+1) = w for tags 1, 3, and with
\* H * r^|v| = h1 for tag 0 and = h2 for tags 1, 2, 3; polygon((eps,0)) has
\* width w and height h1, and for w=h1=h2=1, r=2 polygon((LRL,0)) is the square
\* of side 1/8.
C9_TFractalPolygon ==
    kind = "TFractal" /\ op = "polygon" /\ arg[2] \in Tags =>
        /\ err = "none"
        /\ LET v == arg[1]
               i == arg[2]
               Wd == ret[1][1]
               H == ret[2][2]
               depth == IF i \in {1, 3} THEN Len(v) + 1 ELSE Len(v)
           IN  /\ ret = <<Vec(Wd, QInt(0)), Vec(QInt(0), H),
                          Vec(QNeg(Wd), QInt(0)), Vec(QInt(0), QNeg(H))>>
               /\ QMul(Wd, QPow(self._r, depth)) = self._w
               /\ QMul(H, QPow(self._r, Len(v)))
                      = (IF i = 0 THEN self._h1 ELSE self._h2)
               /\ v = <<>> /\ i = 0 => Wd = self._w /\ H = self._h1
               /\ self = T_init(1, 2, 1, 1) /\ v = <<"L", "R", "L">> /\ i = 0 =>
                      Wd = Q(1, 8) /\ H = Q(1, 8)

\* C9 witness: with r = 3 and w = 2 the side rectangle (LR,3) was returned, of
\* width (2/3)/9 and height 2/9.
C9_Witness ==
    /\ kind = "TFractal" /\ op = "polygon"
    /\ self = T_init(2, 3, 3, 2)
    /\ arg = <<(<<"L", "R">>), 3>>
    /\ ret[1] = Vec(Q(2, 27), QInt(0))
    /\ ret[2] = Vec(QInt(0), Q(2, 9))

\* C10 as stated: for alpha = 1/2 the vectors handed to the polygon
\* constructor are (1,0), (-1,1), (0,-1), (0,0).
C10_AsStated ==
    kind = "ChamanaraSurface" /\ op = "__init__" /\ arg = QQ(1, 2) =>
        self._p = <<Vec(QInt(1), QInt(0)), Vec(QInt(-1), QInt(1)),
                    Vec(QInt(0), QInt(-1)), Vec(QInt(0), QInt(0))>>

\* C10 amended: for alpha = 1/2 (x = 2) the vectors handed to the polygon
\* constructor are (1,0), (-2,2), (0,-1), (1,-1).
C10_ChamanaraHalf ==
    kind = "ChamanaraSurface" /\ op = "__init__" /\ arg = QQ(1, 2) =>
        self._p = <<Vec(QInt(1), QInt(0)), Vec(QInt(-2), QInt(2)),
                    Vec(QInt(0), QInt(-1)), Vec(QInt(1), QInt(-1))>>

\* C10 witness: ChamanaraSurface(1/2) has been constructed.
C10_Witness ==
    /\ kind = "ChamanaraSurface" /\ op = "__init__" /\ arg = QQ(1, 2)
    /\ self._field = "QQ"
    /\ Len(self._p) = 4

\* C11: InfiniteStaircase.opposite_edge(p,e) is (p+1 if p+e is odd else p-1,
\* (e+2) mod 4) for every integer p and every edge e in 0..3; it has no fixed
\* point and crossing back returns the pair one started from; opposite_edge(0,0)
\* is (-1,2) and opposite_edge(0,1) is (1,3).
C11_StaircaseInvolution ==
    kind = "InfiniteStaircase" /\ op = "opposite_edge" =>
        /\ ValidIntEdge(arg) =>
              /\ err = "none"
              /\ ret # arg
              /\ ret[1] - arg[1] = (IF (arg[1] + arg[2]) % 2 = 1 THEN 1 ELSE -1)
              /\ ret[2] = (arg[2] + 2) % 4
        /\ Crossed /\ ValidIntEdge(Before) => err = "none" /\ ret = Before
        /\ arg = <<0, 0>> => ret = <<-1, 2>>
        /\ arg = <<0, 1>> => ret = <<1, 3>>

\* C11 witness: from the negative label -3, edge 2 (-3+2 odd) was crossed up to
\* (-2,0), and crossing back (-2+0 even) has returned (-3,2).
C11_Witness ==
    /\ kind = "InfiniteStaircase" /\ op = "opposite_edge"
    /\ trail = <<(<<-3, 2>>)>>
    /\ arg = <<-2, 0>>
    /\ ret = <<-3, 2>>

\* C12 as stated: in EInfinity.opposite_edge, for |p| > 2, an odd edge keeps
\* the label p (edge (e+2) mod 4) and an even edge is sent to label 1-p.
C12_AsStated ==
    kind = "EInfinity" /\ op = "opposite_edge"
    /\ Abs(arg[1]) > 2 /\ ValidIntEdge(arg) =>
        /\ err = "none"
        /\ ret[2] = (arg[2] + 2) % 4
        /\ ret[1] = (IF arg[2] % 2 = 1 THEN arg[1] ELSE 1 - arg[1])

\* C12 amended: in EInfinity.opposite_edge, for |p| > 2, an odd edge is sent
\* to label -p and an even edge to label 1-p, both with edge (e+2) mod 4.
C12_OddEdgeNegatesLabel ==
    kind = "EInfinity" /\ op = "opposite_edge"
    /\ Abs(arg[1]) > 2 /\ ValidIntEdge(arg) =>
        /\ err = "none"
        /\ ret[2] = (arg[2] + 2) % 4
        /\ ret[1] = (IF arg[2] % 2 = 1 THEN -arg[1] ELSE 1 - arg[1])

\* C12 witness: the odd edge 3 of label 3 was crossed into label -3, and the
\* odd edge 1 of label -3 back into label 3.
C12_Witness ==
    /\ kind = "EInfinity" /\ op = "opposite_edge"
    /\ trail = <<(<<3, 3>>)>>
    /\ arg = <<-3, 1>>
    /\ ret = <<3, 3>>

\* C13: TFractal.opposite_edge((v,i),e) returns edge (e+2) mod 4 and a label
\* whose word is v.L for i=1, e in {0,2}; v.R for i=3, e in {0,2}; v without
\* its last symbol for (i,e) = (0,0) or (2,2) and v non-empty, with tag 1 if
\* that symbol was L and 3 if it was R; and v itself in every other case, where
\* ((eps,0),0) goes to tag 2 and ((eps,2),2) to tag 0.
C13_TFractalCaseTable ==
    kind = "TFractal" /\ op = "opposite_edge" /\ ValidTEdge(arg) =>
        /\ err = "none"
        /\ LET v == arg[1][1]
               i == arg[1][2]
               e == arg[2]
               v2 == ret[1][1]
               i2 == ret[1][2]
               up == (i = 0 /\ e = 0) \/ (i = 2 /\ e = 2)
           IN  /\ ret[2] = (e + 2) % 4
               /\ i = 1 /\ e \in {0, 2} => v2 = Append(v, "L")
               /\ i = 3 /\ e \in {0, 2} => v2 = Append(v, "R")
               /\ up /\ v # <<>> =>
                     /\ v2 = [k \in 1..(Len(v) - 1) |-> v[k]]
                     /\ i2 = (IF v[Len(v)] = "L" THEN 1 ELSE 3)
               /\ up /\ v = <<>> => v2 = v /\ i2 = 2 - i
               /\ ~up /\ ~(i \in {1, 3} /\ e \in {0, 2}) => v2 = v

\* C13 witness: the ascent from (LR,0) through edge 0 stripped the R and
\* arrived at (L,3), edge 2.
C13_Witness ==
    /\ kind = "TFractal" /\ op = "opposite_edge"
    /\ arg = <<(<< <<"L", "R">>, 0>>), 0>>
    /\ ret = <<(<< <<"L">>, 3>>), 2>>

\* C14: the E-infinity gluing matches the rectangle sizes.  With (p',e') =
\* opposite_edge(p,e): get_black(p) = get_black(p') when e is even and
\* get_white(p) = get_white(p') when e is odd; so for the hard-coded pairs
\* (1,0)-(-1,2), (1,2)-(2,0), (0,1)-(1,3), (2,1)-(-2,3).
C14_GluedSidesEqual ==
    kind = "EInfinity" /\ op = "opposite_edge" /\ ValidIntEdge(arg) =>
        /\ err = "none"
        /\ LET l == self._l
               c == cache[1]
               p == arg[1]
               p2 == ret[1]
           IN  IF arg[2] % 2 = 0
               THEN get_black(l, c, p).v = get_black(l, c, p2).v
               ELSE get_white(l, c, p).v = get_white(l, c, p2).v
        /\ arg = <<1, 0>> => ret = <<-1, 2>>
        /\ arg = <<1, 2>> => ret = <<2, 0>>
        /\ arg = <<0, 1>> => ret = <<1, 3>>
        /\ arg = <<2, 1>> => ret = <<-2, 3>>

\* C14 witness: the even edge 0 of label -2 was crossed by the general rule
\* into label 3, whose black weight is reached through the recurrence.
C14_Witness ==
    /\ kind = "EInfinity" /\ op = "opposite_edge"
    /\ arg = <<-2, 0>>
    /\ ret = <<3, 2>>
    /\ get_black(self._l, cache[1], 3).v = self._l * self._l - 4 * self._l + 2

\* C15: the T-fractal gluing is by translations.  With ((v',i'),e') =
\* opposite_edge((v,i),e), edge e of polygon((v,i)) is the negative of edge e'
\* of polygon((v',i')), also where the word length changes by one.
C15_TFractalTranslations ==
    kind = "TFractal" /\ op = "opposite_edge" /\ ValidTEdge(arg) =>
        /\ err = "none"
        /\ LET P == T_polygon(self, cache, arg[1]).res
               P2 == T_polygon(self, cache, ret[1]).res
           IN  /\ P.err = "none"
               /\ P2.err = "none"
               /\ P.val[arg[2] + 1]
                      = Vec(QNeg(P2.val[ret[2] + 1][1]), QNeg(P2.val[ret[2] + 1][2]))

\* C15 witness: with w = 2, r = 3 the bottom of (L,1), of length (2/3)/3, was
\* crossed into the top of (LL,2), of length 2/9.
C15_Witness ==
    /\ kind = "TFractal" /\ op = "opposite_edge"
    /\ self = T_init(2, 3, 3, 2)
    /\ arg = <<(<< <<"L">>, 1>>), 0>>
    /\ ret = <<(<< <<"L", "L">>, 2>>), 2>>
    /\ T_polygon(self, cache, arg[1]).res.val[1] = Vec(Q(2, 9), QInt(0))
    /\ T_polygon(self, cache, ret[1]).res.val[3] = Vec(Q(-2, 9), QInt(0))

\* The edges (polygon index, edge index) of the polygons handed over, and the
\* dictionary read in both directions.
EdgeSet(ps) ==
    UNION {{<<j - 1, e>> : e \in 0..(Len(ps[j]) - 1)} : j \in 1..Len(ps)}
BothWays(g) ==
    {<<k, g[k]>> : k \in DOMAIN g} \cup {<<g[k], k>> : k \in DOMAIN g}

\* C16 as stated: the dictionary each finite generator passes to the surface
\* constructor is a fixed-point-free involution over the full edge set: every
\* edge of every polygon is a key, glue[glue[k]] = k and glue[k] # k.
C16_AsStated ==
    op \in Generators =>
        LET g == self.glue
        IN  /\ DOMAIN g = EdgeSet(self.polygons)
            /\ \A k \in DOMAIN g :
                   g[k] \in DOMAIN g /\ g[g[k]] = k /\ g[k] # k

\* C16 amended: the dictionary each finite generator passes pairs every edge
\* of every polygon exactly once and never with itself, so that read in both
\* directions it is a fixed-point-free involution over the full edge set;
\* example and billard pass both directions of every pair (every edge is a
\* key), right_angle_triangle, regular_octagon and octagon_and_squares pass
\* one direction only (no value is a key).
C16_GluePairsEveryEdgeOnce ==
    op \in Generators =>
        LET g == self.glue
            E == EdgeSet(self.polygons)
            R == {g[k] : k \in DOMAIN g}
        IN  /\ DOMAIN g \subseteq E
            /\ R \subseteq E
            /\ \A e \in E :
                   /\ Cardinality({pr \in BothWays(g) : pr[1] = e}) = 1
                   /\ <<e, e>> \notin BothWays(g)
            /\ op \in {"example", "billard"} => DOMAIN g = E
            /\ op \notin {"example", "billard"} => DOMAIN g \cap R = {}

\* C16 witness: octagon_and_squares has passed its 8 pairs for the 16 edges
\* of the octagon and the two squares.
C16_Witness ==
    /\ op = "octagon_and_squares"
    /\ Cardinality(DOMAIN self.glue) = 8
    /\ Cardinality(EdgeSet(self.polygons)) = 16

\* C17: billard(P) builds the surface from P and its mirror image Q (the
\* edges of P reversed, each reflected by (x,y) -> (-x,y)), so that edge i of
\* polygon 0 and edge n-1-i of polygon 1, which the gluing identifies, have
\* the same length.
Norm2(v) == QAdd(QMul(v[1], v[1]), QMul(v[2], v[2]))

C17_BillardMirror ==
    op = "billard" =>
        LET n == Len(arg)
        IN  /\ self.polygons[1] = arg
            /\ self.polygons[2]
                   = [k \in 1..n |-> Vec(QNeg(arg[n + 1 - k][1]), arg[n + 1 - k][2])]
            /\ \A i \in 0..(n - 1) :
                   /\ self.glue[<<0, i>>] = <<1, n - 1 - i>>
                   /\ Norm2(self.polygons[1][i + 1])
                          = Norm2(self.polygons[2][(n - 1 - i) + 1])

\* C18: the mutually recursive evaluation of get_white(n) and get_black(n)
\* terminates for every integer n, from an empty cache or from any cache left
\* by earlier queries: a call in progress always comes to return.
C18_EvaluationTerminates ==
    (stack[1] # <<>>) ~> (stack[1] = <<>>)

\* C18 witness: get_black(-3), asked after an earlier query, has gone through
\* the reflection to index 4 and the recurrence down to the base cases, and
\* has returned B(4).
C18_Witness ==
    /\ op = "get_black" /\ arg = <<-3>>
    /\ nq = 2
    /\ stack[1] = <<>>
    /\ ret = <<B[self._l][4]>>
    /\ {-3, 4, 3, 2} \subseteq DOMAIN cache[1].b

\* C19: when two threads query get_white / get_black on the same instance
\* concurrently, the recurrence body for a key (sequence, index) is executed
\* by at most one thread, and never again once the key is cached.
InBody(t, f, n) ==
    \E k \in 1..Len(stack[t]) :
        stack[t][k].f = f /\ stack[t][k].n = n /\ stack[t][k].pc # "lookup"

C19_ComputeOncePerKey ==
    \A f \in {"get_white", "get_black"}, n \in Reach :
        /\ ~(InBody(1, f, n) /\ InBody(2, f, n))
        /\ \A t \in Threads :
               n \in DOMAIN memo(f) => ~InBody(t, f, n)

====
